---------------------------- MODULE Spec2Model ----------------------------
(***************************************************************************)
(* A model of aq_widget.py: the Sensor.Community poller that selects a     *)
(* reading per location, derives an AQI, keeps a pruned history and writes *)
(* the Rainmeter variable file and two JSON snapshots.                     *)
(*                                                                         *)
(* Conventions.                                                            *)
(*   - An optional value is a sequence: None is <<>>, a present x is <<x>>.*)
(*   - Concentrations are integers in hundredths of ug/m3 (12.05 is 1205). *)
(*   - Coordinates are integers in hundredths of a degree (40.01 is 4001). *)
(*   - Timestamps are integer seconds.                                     *)
(*   - A raised Python exception is the field exc of a result record.      *)
(***************************************************************************)
EXTENDS Integers, Sequences, FiniteSets, TLC

None == <<>>
Some(x) == <<x>>
IsNone(o) == o = <<>>
IsSome(o) == o # <<>>
Val(o) == o[1]

\* ========= SETTINGS =========

LOCATIONS ==
    [home  |-> [name |-> "My Home",      lat |-> 4000, lon |-> 4450, sensor_id |-> 83131],
     vanya |-> [name |-> "Vanya's Home", lat |-> 4020, lon |-> 4450, sensor_id |-> 80868]]

\* LOCATIONS.items() iterates in insertion order.
LocationKeys == <<"home", "vanya">>

Keys == {"home", "vanya"}

HOURS_HISTORY == 24

\* ========= SENSOR.COMMUNITY =========

(* One entry of the JSON array the area filter returns:                    *)
(*   [id, timestamp, timestamp_measured, location, sensordatavalues]       *)
(* id is entry["sensor"]["id"]; a timestamp is None when the key is        *)
(* missing or the string is empty, else an integer that orders like the    *)
(* "YYYY-MM-DD HH:MM:SS" string; location is [latitude, longitude], each   *)
(* None when float() rejects it (missing or not a number); a               *)
(* sensordatavalue is [value_type, value], value None when float()         *)
(* rejects it.                                                             *)

RECURSIVE extract_pm_from(_, _, _, _)
extract_pm_from(sdv, i, pm25, pm10) ==
    IF i > Len(sdv) THEN <<pm25, pm10>>
    ELSE LET vt  == sdv[i].value_type
             val == sdv[i].value
         IN  IF IsNone(val) THEN extract_pm_from(sdv, i + 1, pm25, pm10)
             ELSE IF vt \in {"P2", "SDS_P2", "PM2.5", "pm2.5"}
                  THEN extract_pm_from(sdv, i + 1, val, pm10)
             ELSE IF vt \in {"P1", "SDS_P1", "PM10", "pm10"}
                  THEN extract_pm_from(sdv, i + 1, pm25, val)
             ELSE extract_pm_from(sdv, i + 1, pm25, pm10)

extract_pm(entry) == extract_pm_from(entry.sensordatavalues, 1, None, None)

\* ts = entry.get("timestamp") or entry.get("timestamp_measured")
EntryTs(entry) ==
    IF IsSome(entry.timestamp) THEN entry.timestamp ELSE entry.timestamp_measured

(* 1) the loop over data for the given sensor_id: the index of the         *)
(* candidate, 0 for None.                                                  *)
RECURSIVE preferred_scan(_, _, _, _, _)
preferred_scan(data, sensor_id, i, latest_ts, candidate) ==
    IF i > Len(data) THEN candidate
    ELSE IF data[i].id # sensor_id
         THEN preferred_scan(data, sensor_id, i + 1, latest_ts, candidate)
    ELSE LET ts == EntryTs(data[i])
         IN  IF IsSome(ts) /\ (IsNone(latest_ts) \/ Val(ts) > Val(latest_ts))
             THEN preferred_scan(data, sensor_id, i + 1, ts, i)
             ELSE preferred_scan(data, sensor_id, i + 1, latest_ts, candidate)

(* dist_km evaluated as the code evaluates it (haversine, R = 6371.0, in   *)
(* floats) and rounded to metres, tabulated for the sensor positions the   *)
(* model uses: the target's own point and points 0.01 and 0.02 degrees     *)
(* north and 0.01 degrees east of it. Distinct positions of the table      *)
(* differ by many metres, so the order and the ties of the table are those *)
(* of the float results.                                                   *)
dist_km(a_lat, a_lon, b_lat, b_lon) ==
    LET dlat == b_lat - a_lat
        dlon == b_lon - a_lon
    IN  CASE a_lat = 4000 /\ dlat = 0 /\ dlon = 0 -> 0
          [] a_lat = 4000 /\ dlat = 0 /\ dlon = 1 -> 852
          [] a_lat = 4000 /\ dlat = 1 /\ dlon = 0 -> 1112
          [] a_lat = 4000 /\ dlat = 1 /\ dlon = 1 -> 1401
          [] a_lat = 4000 /\ dlat = 2 /\ dlon = 0 -> 2224
          [] a_lat = 4000 /\ dlat = 2 /\ dlon = 1 -> 2381
          [] a_lat = 4020 /\ dlat = 0 /\ dlon = 0 -> 0
          [] a_lat = 4020 /\ dlat = 0 /\ dlon = 1 -> 849
          [] a_lat = 4020 /\ dlat = 1 /\ dlon = 0 -> 1112
          [] a_lat = 4020 /\ dlat = 1 /\ dlon = 1 -> 1399
          [] a_lat = 4020 /\ dlat = 2 /\ dlon = 0 -> 2224
          [] a_lat = 4020 /\ dlat = 2 /\ dlon = 1 -> 2381

\* A slip: d <= best_d, so that the last of several equally near readings wins.
RECURSIVE nearest_scan_last(_, _, _, _, _, _)
nearest_scan_last(data, lat, lon, i, best, best_d) ==
    IF i > Len(data) THEN best
    ELSE LET slat == data[i].location.latitude
             slon == data[i].location.longitude
         IN  IF IsNone(slat) \/ IsNone(slon)
             THEN nearest_scan_last(data, lat, lon, i + 1, best, best_d)
             ELSE LET d == dist_km(lat, lon, Val(slat), Val(slon))
                  IN  IF IsNone(best_d) \/ d <= Val(best_d)
                      THEN nearest_scan_last(data, lat, lon, i + 1, i, Some(d))
                      ELSE nearest_scan_last(data, lat, lon, i + 1, best, best_d)

(* 2) the loop that picks the nearest sensor: the index of best, 0 for     *)
(* None. best_d = inf is None: every distance is below it.                 *)
RECURSIVE nearest_scan(_, _, _, _, _, _)
nearest_scan(data, lat, lon, i, best, best_d) ==
    IF i > Len(data) THEN best
    ELSE LET slat == data[i].location.latitude
             slon == data[i].location.longitude
         IN  IF IsNone(slat) \/ IsNone(slon)
             THEN nearest_scan(data, lat, lon, i + 1, best, best_d)
             ELSE LET d == dist_km(lat, lon, Val(slat), Val(slon))
                  IN  IF IsNone(best_d) \/ d < Val(best_d)
                      THEN nearest_scan(data, lat, lon, i + 1, i, Some(d))
                      ELSE nearest_scan(data, lat, lon, i + 1, best, best_d)

(* A response of the data source: kind is "request_error" (requests.get    *)
(* raises), "http_error" (raise_for_status raises), "non_json" (resp.json  *)
(* raises), "non_list" (a JSON value that is no list) or "list" (data).    *)
(* The result: exc is the exception that leaves the function or "none";    *)
(* candidate is the index of the chosen entry (0: none) and via the step   *)
(* that chose it.                                                          *)
fetch_sensor_data(resp, lat, lon, sensor_id) ==
    LET raised(e) == [exc |-> e, pm25 |-> None, pm10 |-> None, candidate |-> 0, via |-> "none"]
        nothing   == raised("none")
    IN  IF resp.kind = "request_error" THEN raised("RequestException")
        ELSE IF resp.kind = "http_error" THEN raised("HTTPError")
        ELSE IF resp.kind = "non_json" THEN raised("JSONDecodeError")
        ELSE IF resp.kind = "non_list" \/ resp.data = <<>> THEN nothing
        ELSE LET data == resp.data
                 c1   == IF IsSome(sensor_id)
                         THEN preferred_scan(data, Val(sensor_id), 1, None, 0)
                         ELSE 0
                 c2   == IF c1 = 0 THEN nearest_scan(data, lat, lon, 1, 0, None) ELSE c1
             IN  IF c2 = 0 THEN nothing
                 ELSE [exc       |-> "none",
                       pm25      |-> extract_pm(data[c2])[1],
                       pm10      |-> extract_pm(data[c2])[2],
                       candidate |-> c2,
                       via       |-> IF c1 # 0 THEN "preferred" ELSE "nearest"]

\* ========= AQI CALCULATION =========

\* (Clow, Chigh, Ilow, Ihigh); 12.1 is 1210 and so on.
PM25_BREAKPOINTS ==
    << <<0,     1200,  0,   50>>,
       <<1210,  3540,  51,  100>>,
       <<3550,  5540,  101, 150>>,
       <<5550,  15040, 151, 200>>,
       <<15050, 25040, 201, 300>>,
       <<25050, 50040, 301, 500>> >>

PM10_BREAKPOINTS ==
    << <<0,     5400,  0,   50>>,
       <<5500,  15400, 51,  100>>,
       <<15500, 25400, 101, 150>>,
       <<25500, 35400, 151, 200>>,
       <<35500, 42400, 201, 300>>,
       <<42500, 60400, 301, 500>> >>

(* Python's round() of a float rounds an exact half to the even integer.   *)
(* The interpolation is evaluated in binary floating point, so at some     *)
(* concentrations whose exact index is a half the float lands just above   *)
(* or just below it. These are all such concentrations at a resolution of  *)
(* hundredths, for the two tables: where the float rounds up although the  *)
(* even neighbour is below, and where it rounds down although the even     *)
(* neighbour is above.                                                     *)
FloatHalfUp(table) ==
    IF table = PM25_BREAKPOINTS
    THEN {108, 156, 348, 444, 540, 636, 732, 924, 972, 1116, 1164, 2375, 4545,
          10295, 16715, 18935, 21155, 23375}
    ELSE {10450, 20450, 30450, 36650, 41250}

FloatHalfDown(table) ==
    IF table = PM25_BREAKPOINTS
    THEN {15605, 17825, 20045, 22265, 24485, 37545}
    ELSE {1674, 38950, 51450}

\* round((Ihigh - Ilow) / (Chigh - Clow) * (C - Clow)), as num / den.
RoundDiv(num, den, C, table) ==
    LET q == num \div den
        r == num % den
    IN  IF 2 * r < den THEN q
        ELSE IF 2 * r > den THEN q + 1
        ELSE IF C \in FloatHalfUp(table) THEN q + 1
        ELSE IF C \in FloatHalfDown(table) THEN q
        ELSE IF q % 2 = 0 THEN q ELSE q + 1

\* The index of the first bucket with Clow <= C <= Chigh, 0 when there is none.
FirstBucket(C, table) ==
    LET hits == {b \in 1..Len(table) : table[b][1] <= C /\ C <= table[b][2]}
    IN  IF hits = {} THEN 0 ELSE CHOOSE b \in hits : \A c \in hits : b <= c

calc_aqi_from_breakpoints(C, table) ==
    IF IsNone(C) THEN None
    ELSE LET b == FirstBucket(Val(C), table)
         IN  IF b = 0 THEN None
             ELSE LET Clow  == table[b][1]
                      Chigh == table[b][2]
                      Ilow  == table[b][3]
                      Ihigh == table[b][4]
                  IN  Some(RoundDiv((Ihigh - Ilow) * (Val(C) - Clow), Chigh - Clow,
                                    Val(C), table) + Ilow)

Max2(a, b) == IF a >= b THEN a ELSE b

Min2(a, b) == IF a <= b THEN a ELSE b

\* A slip: the better of the two sub-indices instead of the worse.
calc_aqi_min(pm25, pm10) ==
    LET aqi25 == IF IsSome(pm25) THEN calc_aqi_from_breakpoints(pm25, PM25_BREAKPOINTS) ELSE None
        aqi10 == IF IsSome(pm10) THEN calc_aqi_from_breakpoints(pm10, PM10_BREAKPOINTS) ELSE None
    IN  IF IsNone(aqi25) THEN aqi10
        ELSE IF IsNone(aqi10) THEN aqi25
        ELSE Some(Min2(Val(aqi25), Val(aqi10)))

calc_aqi(pm25, pm10) ==
    LET aqi25 == IF IsSome(pm25) THEN calc_aqi_from_breakpoints(pm25, PM25_BREAKPOINTS) ELSE None
        aqi10 == IF IsSome(pm10) THEN calc_aqi_from_breakpoints(pm10, PM10_BREAKPOINTS) ELSE None
        vals  == aqi25 \o aqi10
    IN  IF vals = <<>> THEN None
        ELSE IF Len(vals) = 1 THEN Some(vals[1])
        ELSE Some(Max2(vals[1], vals[2]))

category_and_color(aqi) ==
    IF aqi <= 50 THEN <<"Good", "0,255,128,220">>
    ELSE IF aqi <= 100 THEN <<"Moderate", "255,220,0,220">>
    ELSE IF aqi <= 150 THEN <<"Unhealthy for sensitive", "255,153,0,220">>
    ELSE IF aqi <= 200 THEN <<"Unhealthy", "255,51,51,220">>
    ELSE IF aqi <= 300 THEN <<"Very unhealthy", "186,85,211,220">>
    ELSE <<"Hazardous", "128,0,64,220">>

trend_icon(new, old) ==
    IF IsNone(new) \/ IsNone(old) THEN "arrow_flat"
    ELSE IF Val(new) > Val(old) THEN "arrow_up"
    ELSE IF Val(new) < Val(old) THEN "arrow_down"
    ELSE "arrow_flat"


\* ========= STATE / HISTORY =========

(* A JSON file on disk is [kind, data]: kind is "missing", "unparseable"   *)
(* (json.loads raises), "nonmapping" (valid JSON whose top level is not an *)
(* object, such as []) or "mapping"; data is the object's content, total   *)
(* over the location keys: a key the object lacks holds what .get's        *)
(* default yields. data is the empty content when kind is not "mapping".   *)

NoState == [k \in Keys |-> [aqi |-> None, updated |-> None]]

NoHistory == [k \in Keys |-> <<>>]

\* load_json(path, {}): the parsed value, or the default {}.
load_json(file, default) ==
    IF file.kind \in {"missing", "unparseable"}
    THEN [kind |-> "mapping", data |-> default]
    ELSE file

max_age == HOURS_HISTORY * 3600

HistoryEntry(ts, aqi, pm25, pm10) ==
    [ts |-> Some(ts), aqi |-> aqi, pm25 |-> pm25, pm10 |-> pm10]

Retained(entries, ts) ==
    SelectSeq(entries, LAMBDA e : ts - Val(e.ts) <= max_age)

(* What update_history raises: history.get raises AttributeError when the  *)
(* loaded value is no dict; e["ts"] raises KeyError on an entry without    *)
(* that key (its ts is None here).                                         *)
update_history_exc(history, key) ==
    IF history.kind # "mapping" THEN "AttributeError"
    ELSE IF \E j \in 1..Len(history.data[key]) : IsNone(history.data[key][j].ts)
         THEN "KeyError"
    ELSE "none"

\* A slip: ts - e["ts"] < max_age, which drops the entry exactly max_age old.
update_history_strict(history, key, ts, aqi, pm25, pm10) ==
    IF update_history_exc(history, key) # "none"
    THEN [exc |-> update_history_exc(history, key), history |-> history]
    ELSE LET entries == Append(history.data[key], HistoryEntry(ts, aqi, pm25, pm10))
         IN  [exc     |-> "none",
              history |-> [history EXCEPT !.data[key] =
                              SelectSeq(entries, LAMBDA e : ts - Val(e.ts) < max_age)]]

\* A slip: entries.insert(0, ...), the new entry put first.
update_history_front(history, key, ts, aqi, pm25, pm10) ==
    IF update_history_exc(history, key) # "none"
    THEN [exc |-> update_history_exc(history, key), history |-> history]
    ELSE LET entries == <<HistoryEntry(ts, aqi, pm25, pm10)>> \o history.data[key]
         IN  [exc     |-> "none",
              history |-> [history EXCEPT !.data[key] = Retained(entries, ts)]]

\* A slip: no entry for a run without data.
update_history_skip(history, key, ts, aqi, pm25, pm10) ==
    IF update_history_exc(history, key) # "none"
    THEN [exc |-> update_history_exc(history, key), history |-> history]
    ELSE LET entries == IF IsNone(aqi) THEN history.data[key]
                        ELSE Append(history.data[key], HistoryEntry(ts, aqi, pm25, pm10))
         IN  [exc     |-> "none",
              history |-> [history EXCEPT !.data[key] = Retained(entries, ts)]]

(* history is the loaded value. Unless it raises, history[key] becomes the *)
(* entries, with the new one appended, that are at most max_age older than *)
(* ts.                                                                     *)
update_history(history, key, ts, aqi, pm25, pm10) ==
    IF update_history_exc(history, key) # "none"
    THEN [exc |-> update_history_exc(history, key), history |-> history]
    ELSE LET entries == Append(history.data[key], HistoryEntry(ts, aqi, pm25, pm10))
         IN  [exc     |-> "none",
              history |-> [history EXCEPT !.data[key] = Retained(entries, ts)]]

\* ========= MAIN =========

MaxRuns == 2

MaxTick == 1

MaxReadings == 3

MaxEntries == 3

VARIABLES
    STATE_FILE,     \* aqi_last.json on disk
    HISTORY_FILE,   \* aqi_history.json on disk
    VARS_FILE,      \* aqi_data.inc on disk
    pc,             \* where main is: "idle", "loop", "write_vars", "save_state",
                    \* "save_history", "graph", or "aborted" (an exception left main)
    exc,            \* the exception that ended the last run, "none" if none did
    loc,            \* the index in LocationKeys of the location to process next
    prev_state,     \* main's prev_state
    history,        \* main's history
    now_ts,         \* main's now_ts (now_iso is the same instant)
    new_state,      \* main's new_state
    lines,          \* main's lines, per location
    runs,           \* the runs started so far
    start_disk,     \* the three files as they were when the run started
    reads,          \* how often the run has read the two snapshots
    writes,         \* how often the run has written each of the three files
    last_run_aqi,   \* per location, the AQI the run before this one recorded
    fn_pc,          \* a single call of one function: "unused", "ready", "done"
    fn_in,          \* its arguments
    fn_out          \* its result

main_vars == <<STATE_FILE, HISTORY_FILE, VARS_FILE, pc, exc, loc, prev_state, history,
               now_ts, new_state, lines, runs, start_disk, reads, writes, last_run_aqi>>

fn_vars == <<fn_pc, fn_in, fn_out>>

vars == <<main_vars, fn_vars>>

\* The instants a run may start at: the clock is not assumed to move forward.
Times == {0} \cup {max_age + d : d \in 0..MaxTick}

Failure(kind) == [kind |-> kind, data |-> <<>>]

\* One entry of the preferred sensor of a location, 0.01 degrees east of it.
PmReading(key, pm25, pm10) ==
    [id                 |-> LOCATIONS[key].sensor_id,
     timestamp          |-> Some(1),
     timestamp_measured |-> None,
     location           |-> [latitude  |-> Some(LOCATIONS[key].lat),
                             longitude |-> Some(LOCATIONS[key].lon + 1)],
     sensordatavalues   |-> << [value_type |-> "P1", value |-> Some(pm10)],
                               [value_type |-> "P2", value |-> Some(pm25)] >>]

\* What the data source may answer to one request of main.
MainResponses(key) ==
    { Failure("request_error"), Failure("http_error"), Failure("non_json"),
      Failure("non_list"),
      [kind |-> "list", data |-> <<>>],
      [kind |-> "list", data |-> <<PmReading(key, 1000, 2000)>>],
      [kind |-> "list", data |-> <<PmReading(key, 4000, 2000)>>] }

NoLines == [k \in Keys |-> [written |-> FALSE]]

NoAqi == [k \in Keys |-> None]

NoCount == [f \in {"vars", "state", "history"} |-> 0]

\* The snapshots a run may find: none, a damaged one, or an earlier run's.
InitStateFiles ==
    { [kind |-> "missing", data |-> NoState],
      [kind |-> "unparseable", data |-> NoState],
      [kind |-> "nonmapping", data |-> NoState],
      [kind |-> "mapping", data |-> NoState],
      [kind |-> "mapping",
       data |-> [home  |-> [aqi |-> calc_aqi(Some(1000), Some(2000)), updated |-> Some(0)],
                 vanya |-> [aqi |-> None, updated |-> Some(0)]]] }

InitHistoryFiles ==
    { [kind |-> "missing", data |-> NoHistory],
      [kind |-> "unparseable", data |-> NoHistory],
      [kind |-> "nonmapping", data |-> NoHistory],
      [kind |-> "mapping", data |-> NoHistory],
      [kind |-> "mapping",
       data |-> [home  |-> <<HistoryEntry(0, calc_aqi(Some(1000), Some(2000)),
                                          Some(1000), Some(2000))>>,
                 vanya |-> <<HistoryEntry(0, None, None, None)>>]],
      [kind |-> "mapping",
       data |-> [home  |-> <<[ts |-> None, aqi |-> None, pm25 |-> None, pm10 |-> None]>>,
                 vanya |-> <<>>]] }

InitMain ==
    /\ STATE_FILE \in InitStateFiles
    /\ HISTORY_FILE \in InitHistoryFiles
    /\ VARS_FILE = [kind |-> "missing", lines |-> NoLines, updated |-> None]
    /\ pc = "idle"
    /\ exc = "none"
    /\ loc = 1
    /\ prev_state = [kind |-> "mapping", data |-> NoState]
    /\ history = [kind |-> "mapping", data |-> NoHistory]
    /\ now_ts = 0
    /\ new_state = NoState
    /\ lines = NoLines
    /\ runs = 0
    /\ start_disk = <<STATE_FILE, HISTORY_FILE, VARS_FILE>>
    /\ reads = 0
    /\ writes = NoCount
    /\ last_run_aqi = IF STATE_FILE.kind = "mapping"
                      THEN [k \in Keys |-> STATE_FILE.data[k].aqi]
                      ELSE NoAqi

FnUnused ==
    /\ fn_pc = "unused"
    /\ fn_in = <<>>
    /\ fn_out = <<>>

Init == InitMain /\ FnUnused

\* main() up to the loop: both snapshots are loaded and the clock is read.
Start ==
    /\ pc \in {"idle", "aborted"}
    /\ runs < MaxRuns
    /\ \E t \in Times : now_ts' = t
    /\ prev_state' = load_json(STATE_FILE, NoState)
    /\ history' = load_json(HISTORY_FILE, NoHistory)
    /\ lines' = NoLines
    /\ new_state' = NoState
    /\ loc' = 1
    /\ pc' = "loop"
    /\ exc' = "none"
    /\ runs' = runs + 1
    /\ start_disk' = <<STATE_FILE, HISTORY_FILE, VARS_FILE>>
    /\ reads' = 1
    /\ writes' = NoCount
    /\ UNCHANGED <<STATE_FILE, HISTORY_FILE, VARS_FILE, last_run_aqi, fn_vars>>

\* An exception leaves main: the process ends with a traceback.
Raise(e) ==
    /\ pc' = "aborted"
    /\ exc' = e
    /\ last_run_aqi' = NoAqi
    /\ UNCHANGED <<STATE_FILE, HISTORY_FILE, VARS_FILE, loc, prev_state, history, now_ts,
                   new_state, lines, runs, start_disk, reads, writes, fn_vars>>

\* The text lines of one location.
LocationLines(key, aqi, old_aqi, pm25, pm10) ==
    [written |-> TRUE,
     aqi     |-> aqi,
     color   |-> IF IsNone(aqi) THEN "128,128,128,180" ELSE category_and_color(Val(aqi))[2],
     icon    |-> IF IsNone(aqi) THEN "arrow_flat" ELSE trend_icon(aqi, old_aqi),
     cat     |-> IF IsNone(aqi) THEN "No data" ELSE category_and_color(Val(aqi))[1],
     name    |-> LOCATIONS[key].name,
     pm25    |-> pm25,
     pm10    |-> pm10]

\* One pass of the loop over LOCATIONS, for the response resp.
LoopBody(resp) ==
    LET key    == LocationKeys[loc]
        cfg    == LOCATIONS[key]
        f      == fetch_sensor_data(resp, cfg.lat, cfg.lon, Some(cfg.sensor_id))
        aqi    == calc_aqi(f.pm25, f.pm10)
        h      == update_history(history, key, now_ts, aqi, f.pm25, f.pm10)
    IN  IF f.exc # "none" THEN Raise(f.exc)
        ELSE IF prev_state.kind # "mapping" THEN Raise("AttributeError")
        ELSE IF h.exc # "none" THEN Raise(h.exc)
        ELSE /\ new_state' = [new_state EXCEPT ![key] = [aqi |-> aqi, updated |-> Some(now_ts)]]
             /\ history' = h.history
             /\ lines' = [lines EXCEPT ![key] =
                             LocationLines(key, aqi, prev_state.data[key].aqi, f.pm25, f.pm10)]
             /\ loc' = loc + 1
             /\ pc' = IF loc = Len(LocationKeys) THEN "write_vars" ELSE "loop"
             /\ UNCHANGED <<STATE_FILE, HISTORY_FILE, VARS_FILE, exc, prev_state, now_ts,
                            runs, start_disk, reads, writes, last_run_aqi, fn_vars>>

ProcessLocation ==
    /\ pc = "loop"
    /\ \E resp \in MainResponses(LocationKeys[loc]) : LoopBody(resp)

\* VARS_FILE.write_text(...)
WriteVars ==
    /\ pc = "write_vars"
    /\ VARS_FILE' = [kind |-> "written", lines |-> lines, updated |-> Some(now_ts)]
    /\ writes' = [writes EXCEPT !["vars"] = @ + 1]
    /\ pc' = "save_state"
    /\ UNCHANGED <<STATE_FILE, HISTORY_FILE, exc, loc, prev_state, history, now_ts,
                   new_state, lines, runs, start_disk, reads, last_run_aqi, fn_vars>>

\* save_json(STATE_FILE, new_state)
SaveState ==
    /\ pc = "save_state"
    /\ STATE_FILE' = [kind |-> "mapping", data |-> new_state]
    /\ writes' = [writes EXCEPT !["state"] = @ + 1]
    /\ pc' = "save_history"
    /\ UNCHANGED <<HISTORY_FILE, VARS_FILE, exc, loc, prev_state, history, now_ts,
                   new_state, lines, runs, start_disk, reads, last_run_aqi, fn_vars>>

\* save_json(HISTORY_FILE, history)
SaveHistory ==
    /\ pc = "save_history"
    /\ HISTORY_FILE' = history
    /\ writes' = [writes EXCEPT !["history"] = @ + 1]
    /\ pc' = "graph"
    /\ UNCHANGED <<STATE_FILE, VARS_FILE, exc, loc, prev_state, history, now_ts,
                   new_state, lines, runs, start_disk, reads, last_run_aqi, fn_vars>>

(* save_daily_graph(history): it draws the images from history and changes *)
(* none of the three files; the run is over.                               *)
SaveDailyGraph ==
    /\ pc = "graph"
    /\ pc' = "idle"
    /\ last_run_aqi' = [k \in Keys |-> new_state[k].aqi]
    /\ UNCHANGED <<STATE_FILE, HISTORY_FILE, VARS_FILE, exc, loc, prev_state, history,
                   now_ts, new_state, lines, runs, start_disk, reads, writes, fn_vars>>

Next ==
    \/ Start
    \/ ProcessLocation
    \/ WriteVars
    \/ SaveState
    \/ SaveHistory
    \/ SaveDailyGraph

Spec == Init /\ [][Next]_vars

\* ========= SINGLE CALLS =========

\* main is not running.
MainUnused ==
    /\ STATE_FILE = [kind |-> "missing", data |-> NoState]
    /\ HISTORY_FILE = [kind |-> "missing", data |-> NoHistory]
    /\ VARS_FILE = [kind |-> "missing", lines |-> NoLines, updated |-> None]
    /\ pc = "idle"
    /\ exc = "none"
    /\ loc = 1
    /\ prev_state = [kind |-> "mapping", data |-> NoState]
    /\ history = [kind |-> "mapping", data |-> NoHistory]
    /\ now_ts = 0
    /\ new_state = NoState
    /\ lines = NoLines
    /\ runs = 0
    /\ start_disk = <<STATE_FILE, HISTORY_FILE, VARS_FILE>>
    /\ reads = 0
    /\ writes = NoCount
    /\ last_run_aqi = NoAqi

SeqsUpTo(S, n) == UNION {[1..m -> S] : m \in 0..n}

Opt(S) == {None} \cup {Some(x) : x \in S}

\* --- calc_aqi_from_breakpoints and calc_aqi

MaxStep == 2

\* Concentrations at and around every bound of a table, 0.05 apart.
ConcSamples(table) ==
    {table[b][c] + 5 * d : b \in 1..Len(table), c \in 1..2, d \in (0 - MaxStep)..MaxStep}

InitAqi ==
    /\ MainUnused
    /\ fn_pc = "ready"
    /\ fn_in \in [pm25 : Opt(ConcSamples(PM25_BREAKPOINTS)),
                  pm10 : Opt(ConcSamples(PM10_BREAKPOINTS))]
    /\ fn_out = <<>>

CalcAqiCall ==
    /\ fn_pc = "ready"
    /\ fn_pc' = "done"
    /\ fn_out' = [aqi25 |-> calc_aqi_from_breakpoints(fn_in.pm25, PM25_BREAKPOINTS),
                  aqi10 |-> calc_aqi_from_breakpoints(fn_in.pm10, PM10_BREAKPOINTS),
                  aqi   |-> calc_aqi(fn_in.pm25, fn_in.pm10)]
    /\ UNCHANGED <<fn_in, main_vars>>

SpecAqi == InitAqi /\ [][CalcAqiCall]_vars

\* --- fetch_sensor_data

(* The entries a payload for a location may hold: of either sensor, with a *)
(* timestamp, only a timestamp_measured or neither, and with no numeric    *)
(* coordinates, 0.01 degrees east or 0.01 degrees north of the location.   *)
(* The preferred sensor of home reports P1 and P2; the other reports a     *)
(* temperature, a P2 and a second P2 that is no number.                    *)
SensorValues(id) ==
    IF id = LOCATIONS["home"].sensor_id
    THEN << [value_type |-> "P1", value |-> Some(2000)],
            [value_type |-> "P2", value |-> Some(1000)] >>
    ELSE << [value_type |-> "temperature", value |-> Some(2150)],
            [value_type |-> "P2", value |-> Some(4000)],
            [value_type |-> "P2", value |-> None] >>

Readings(key) ==
    {[id                 |-> id,
      timestamp          |-> t[1],
      timestamp_measured |-> t[2],
      location           |-> l,
      sensordatavalues   |-> SensorValues(id)] :
        id \in {LOCATIONS[k].sensor_id : k \in Keys},
        t  \in {<<None, None>>, <<Some(1), None>>, <<None, Some(2)>>},
        l  \in {[latitude |-> None, longitude |-> None],
                [latitude |-> Some(LOCATIONS[key].lat), longitude |-> Some(LOCATIONS[key].lon + 1)],
                [latitude |-> Some(LOCATIONS[key].lat + 1), longitude |-> Some(LOCATIONS[key].lon)]}}

InitFetch ==
    /\ MainUnused
    /\ fn_pc = "ready"
    /\ \E key \in Keys :
          fn_in \in [key       : {key},
                     resp      : [kind : {"list"}, data : SeqsUpTo(Readings(key), MaxReadings)],
                     sensor_id : {None, Some(LOCATIONS[key].sensor_id)}]
    /\ fn_out = <<>>

FetchCall ==
    /\ fn_pc = "ready"
    /\ fn_pc' = "done"
    /\ fn_out' = fetch_sensor_data(fn_in.resp, LOCATIONS[fn_in.key].lat,
                                   LOCATIONS[fn_in.key].lon, fn_in.sensor_id)
    /\ UNCHANGED <<fn_in, main_vars>>

SpecFetch == InitFetch /\ [][FetchCall]_vars

\* --- update_history

HistTimes == {k * max_age + d : k \in 0..MaxTick, d \in 0..1}

HistEntries == {HistoryEntry(t, a, None, None) : t \in HistTimes, a \in Opt({42})}

InitHist ==
    /\ MainUnused
    /\ fn_pc = "ready"
    /\ \E prior \in SeqsUpTo(HistEntries, MaxEntries) :
          fn_in \in [history : {[kind |-> "mapping",
                                 data |-> [home |-> prior, vanya |-> <<>>]]},
                     key     : {"home"},
                     ts      : HistTimes,
                     aqi     : Opt({112})]
    /\ fn_out = <<>>

UpdateHistoryCall ==
    /\ fn_pc = "ready"
    /\ fn_pc' = "done"
    /\ fn_out' = update_history(fn_in.history, fn_in.key, fn_in.ts, fn_in.aqi, None, None)
    /\ UNCHANGED <<fn_in, main_vars>>

SpecHist == InitHist /\ [][UpdateHistoryCall]_vars

\* ========= PROPERTIES =========

NetworkErrors == {"RequestException", "HTTPError", "JSONDecodeError"}

(* C1: a request error, an HTTP error status or a body that is no JSON,    *)
(* met while one location is fetched, does not end the run: the location   *)
(* gets "No data", the other locations are processed and the files are     *)
(* written. Stated as: no run ends in the loop with a network exception.   *)
C1_NetworkFailureDoesNotAbort ==
    ~(pc = "aborted" /\ exc \in NetworkErrors)

(* C2: with a preferred sensor id given and an entry of that sensor in the *)
(* payload, the chosen entry is one of that sensor, with or without a      *)
(* timestamp, and the nearest-distance step is not used.                   *)
C2_PreferredSensorChosen ==
    (/\ fn_pc = "done"
     /\ IsSome(fn_in.sensor_id)
     /\ \E j \in 1..Len(fn_in.resp.data) : fn_in.resp.data[j].id = Val(fn_in.sensor_id))
    => /\ fn_out.via = "preferred"
       /\ fn_out.candidate \in 1..Len(fn_in.resp.data)
       /\ fn_in.resp.data[fn_out.candidate].id = Val(fn_in.sensor_id)

AllHaveTs(entries) == \A j \in 1..Len(entries) : IsSome(entries[j].ts)

NonDecreasing(entries) ==
    \A j \in 1..Len(entries) : \A m \in 1..Len(entries) :
        j < m => Val(entries[j].ts) <= Val(entries[m].ts)

(* C3, as stated: whatever the run timestamps, the timestamps of each      *)
(* location's persisted history are non-decreasing from oldest to newest.  *)
C3_HistoryNonDecreasing ==
    \A k \in Keys :
        (HISTORY_FILE.kind = "mapping" /\ AllHaveTs(HISTORY_FILE.data[k]))
        => NonDecreasing(HISTORY_FILE.data[k])

\* The history file the run started with is well formed and holds, for k,
\* non-decreasing timestamps none of which is later than the run's.
ClockNotBehind(k) ==
    LET old == load_json(start_disk[2], NoHistory)
    IN  /\ old.kind = "mapping"
        /\ AllHaveTs(old.data[k])
        /\ NonDecreasing(old.data[k])
        /\ \A j \in 1..Len(old.data[k]) : Val(old.data[k][j].ts) <= now_ts

(* C3, amended: a run whose timestamp is not earlier than any timestamp    *)
(* stored for a location leaves that location's history non-decreasing if  *)
(* it found it non-decreasing.                                             *)
C3_NonDecreasingIfClockNotBehind ==
    \A k \in Keys :
        (pc = "graph" /\ ClockNotBehind(k)) => NonDecreasing(HISTORY_FILE.data[k])

C3_Witness ==
    /\ pc = "graph"
    /\ ClockNotBehind("home")
    /\ Len(HISTORY_FILE.data["home"]) >= 2
    /\ Val(HISTORY_FILE.data["home"][1].ts) < now_ts

\* The j-th smallest member of a set of indices.
Nth(S, j) == CHOOSE i \in S : Cardinality({m \in S : m <= i}) = j

(* C4: after update_history appends at time T, the location's sequence is  *)
(* exactly the prior entries and the new one that are at most max_age      *)
(* older than T, in their order; an entry exactly max_age old stays and    *)
(* the new entry always stays.                                             *)
C4_RetentionExact ==
    fn_pc = "done" =>
        LET T    == fn_in.ts
            new  == HistoryEntry(T, fn_in.aqi, None, None)
            all  == Append(fn_in.history.data[fn_in.key], new)
            kept == {i \in 1..Len(all) : T - Val(all[i].ts) <= max_age}
            res  == fn_out.history.data[fn_in.key]
        IN  /\ fn_out.exc = "none"
            /\ Len(res) = Cardinality(kept)
            /\ \A j \in 1..Len(res) : res[j] = all[Nth(kept, j)]
            /\ \A j \in 1..Len(res) : T - Val(res[j].ts) <= max_age
            /\ \A i \in 1..Len(all) :
                  T - Val(all[i].ts) = max_age => \E j \in 1..Len(res) : res[j] = all[i]
            /\ Len(res) >= 1
            /\ res[Len(res)] = new

C4_Witness ==
    /\ fn_pc = "done"
    /\ LET prior == fn_in.history.data[fn_in.key]
           res   == fn_out.history.data[fn_in.key]
       IN  /\ \E i \in 1..Len(prior) : fn_in.ts - Val(prior[i].ts) = max_age
           /\ \E i \in 1..Len(prior) : fn_in.ts - Val(prior[i].ts) > max_age
           /\ Len(res) = 2

InRange(C, table) == table[1][1] <= C /\ C <= table[Len(table)][2]

(* C5: the buckets of each table are disjoint and contiguous: every        *)
(* concentration, in hundredths, from the first low bound to the last high *)
(* bound lies in exactly one bucket and gets an index; the index is absent *)
(* only below 0 and above the top bound.                                   *)
C5_TablesContiguous ==
    fn_pc = "done" =>
        /\ (IsSome(fn_in.pm25) /\ InRange(Val(fn_in.pm25), PM25_BREAKPOINTS))
           => /\ IsSome(fn_out.aqi25)
              /\ Cardinality({b \in 1..Len(PM25_BREAKPOINTS) :
                     /\ PM25_BREAKPOINTS[b][1] <= Val(fn_in.pm25)
                     /\ Val(fn_in.pm25) <= PM25_BREAKPOINTS[b][2]}) = 1
        /\ (IsSome(fn_in.pm10) /\ InRange(Val(fn_in.pm10), PM10_BREAKPOINTS))
           => /\ IsSome(fn_out.aqi10)
              /\ Cardinality({b \in 1..Len(PM10_BREAKPOINTS) :
                     /\ PM10_BREAKPOINTS[b][1] <= Val(fn_in.pm10)
                     /\ Val(fn_in.pm10) <= PM10_BREAKPOINTS[b][2]}) = 1

(* C6: calc_aqi is the larger of the two sub-indices when both exist, the  *)
(* only one when one exists (a concentration outside every bucket has      *)
(* none), and absent when neither exists.                                  *)
C6_CombinedIsMax ==
    fn_pc = "done" =>
        LET a25 == fn_out.aqi25
            a10 == fn_out.aqi10
        IN  /\ (IsSome(a25) /\ IsSome(a10))
               => /\ IsSome(fn_out.aqi)
                  /\ Val(fn_out.aqi) >= Val(a25)
                  /\ Val(fn_out.aqi) >= Val(a10)
                  /\ Val(fn_out.aqi) \in {Val(a25), Val(a10)}
            /\ (IsSome(a25) /\ IsNone(a10)) => fn_out.aqi = a25
            /\ (IsNone(a25) /\ IsSome(a10)) => fn_out.aqi = a10
            /\ (IsNone(a25) /\ IsNone(a10)) => IsNone(fn_out.aqi)

C6_Witness ==
    /\ fn_pc = "done"
    /\ IsSome(fn_out.aqi25)
    /\ IsSome(fn_out.aqi10)
    /\ Val(fn_out.aqi25) > Val(fn_out.aqi10)
    /\ fn_out.aqi = fn_out.aqi25

(* C7: whatever the two snapshots hold (nothing, no JSON, JSON that is no  *)
(* object, history entries without "ts"), the run falls back to the empty  *)
(* default and ends without a fatal error. Stated as: no run ends with the *)
(* exceptions a snapshot of the wrong shape raises.                        *)
C7_SnapshotShapeDoesNotAbort ==
    ~(pc = "aborted" /\ exc \in {"AttributeError", "KeyError"})

\* Up if greater, Down if smaller, else Flat; Flat when either is absent.
StrictTrend(new, old) ==
    IF IsNone(new) \/ IsNone(old) THEN "arrow_flat"
    ELSE IF Val(new) > Val(old) THEN "arrow_up"
    ELSE IF Val(new) < Val(old) THEN "arrow_down"
    ELSE "arrow_flat"

(* C8: the trend a run emits for a location compares the run's AQI with    *)
(* the AQI the run immediately before it recorded for that location, and   *)
(* is Flat when either is absent; a run that got no data leaves nothing to *)
(* compare with, so the run after it emits Flat.                           *)
C8_TrendAgainstPrecedingRun ==
    pc = "write_vars" =>
        \A k \in Keys : lines[k].icon = StrictTrend(lines[k].aqi, last_run_aqi[k])

Numeric(data) ==
    {j \in 1..Len(data) :
        IsSome(data[j].location.latitude) /\ IsSome(data[j].location.longitude)}

DistTo(key, entry) ==
    dist_km(LOCATIONS[key].lat, LOCATIONS[key].lon,
            Val(entry.location.latitude), Val(entry.location.longitude))

(* C9: when the nearest-distance step chooses, it chooses an entry with    *)
(* numeric coordinates at the least distance to the target, the first in   *)
(* list order among several at that distance; entries without numeric     *)
(* coordinates are never chosen and do not end the scan; nothing is chosen *)
(* only when no entry has numeric coordinates.                             *)
C9_NearestFirstWins ==
    (fn_pc = "done" /\ fn_out.via # "preferred") =>
        LET data == fn_in.resp.data
            c    == fn_out.candidate
        IN  IF Numeric(data) = {} THEN c = 0
            ELSE /\ c \in Numeric(data)
                 /\ \A j \in Numeric(data) :
                       /\ DistTo(fn_in.key, data[c]) <= DistTo(fn_in.key, data[j])
                       /\ DistTo(fn_in.key, data[c]) = DistTo(fn_in.key, data[j]) => c <= j

C9_Witness ==
    /\ fn_pc = "done"
    /\ fn_out.via = "nearest"
    /\ Len(fn_in.resp.data) = 3
    /\ Numeric(fn_in.resp.data) = {2, 3}
    /\ fn_in.resp.data[2] # fn_in.resp.data[3]
    /\ DistTo(fn_in.key, fn_in.resp.data[2]) = DistTo(fn_in.key, fn_in.resp.data[3])
    /\ fn_out.candidate = 2

(* C10: a run reads the two snapshots once, before the first location, and *)
(* writes each file once, after the last; a completed run has appended one *)
(* entry per location, with or without an AQI; a run that stops in the     *)
(* loop leaves the three files as they were.                               *)
C10_ReadOnceWriteOnce ==
    /\ (runs > 0 /\ pc \in {"loop", "aborted"})
       => /\ reads = 1
          /\ writes = NoCount
          /\ <<STATE_FILE, HISTORY_FILE, VARS_FILE>> = start_disk
    /\ (runs > 0 /\ pc \in {"write_vars", "save_state", "save_history", "graph"})
       => /\ reads = 1
          /\ \A f \in DOMAIN writes : writes[f] <= 1
    /\ (runs > 0 /\ pc = "idle")
       => /\ reads = 1
          /\ \A f \in DOMAIN writes : writes[f] = 1
          /\ HISTORY_FILE.kind = "mapping"
          /\ \A k \in Keys :
                LET old == load_json(start_disk[2], NoHistory).data[k]
                    new == HISTORY_FILE.data[k]
                IN  /\ Len(new) = 1 + Cardinality({j \in 1..Len(old) :
                                         now_ts - Val(old[j].ts) <= max_age})
                    /\ new[Len(new)].ts = Some(now_ts)
                    /\ new[Len(new)].aqi = new_state[k].aqi

C10_Witness ==
    /\ runs > 0
    /\ pc = "idle"
    /\ IsNone(new_state["vanya"].aqi)
    /\ IsSome(new_state["home"].aqi)
    /\ Len(HISTORY_FILE.data["vanya"]) >= 2
    /\ start_disk[2] # HISTORY_FILE

=============================================================================
